---- MODULE Spec2Model ----
(***************************************************************************)
(* Paper-System-Backend: the Express request handlers of the paper-review  *)
(* REST service, over the User and Paper collections and the blob store    *)
(* (Cloudinary in the remote-blob server, the uploads/ directory in the    *)
(* local-disk server).                                                     *)
(*                                                                         *)
(* A handler that awaits more than once and can be overtaken between its   *)
(* awaits in a way that matters to the stores (register moderator, delete  *)
(* moderator) is one action per step; every other handler is one action,   *)
(* with the outcome of the external calls it makes as an input.            *)
(***************************************************************************)
EXTENDS Integers, Sequences, FiniteSets, Bags, TLC

\* ------------------------------------------------------------------ bounds
MaxUsers == 2       \* ObjectIds the User collection hands out
MaxInFlight == 2    \* handlers suspended at an await at the same time
MaxPapers == 1      \* ObjectIds the Paper collection hands out
MaxFiles == 3       \* files uploaded over a run
MaxTime == 1        \* how far Date.now() advances
MaxOwned == 2       \* SpecAccess: ObjectIds the Paper collection hands out

\* ------------------------------------------------------------ input domains
Usernames == {"alice", "bob"}
Passwords == {"pw1", "pw2"}
Salts == {"salt"}
Notes == {"N1", "N2"}
Titles == {"T"}
Empty == ""                          \* a missing (falsy) body field
AdminSubject == 0                    \* the _id 'admin' of the admin's claims: no ObjectId
AdminPassword == "secret"            \* process.env.ADMIN_PASSWORD
UserIds == 1..MaxUsers
Variants == {"remote", "local"}

VARIABLES
  variant,      \* which of the two servers is deployed
  users,        \* User collection: _id -> [username, password]
  papers,       \* Paper collection: _id -> document
  blobs,        \* blob store: the stored files
  nextUserId, nextPaperId, nextFileId,   \* id generators
  now,          \* Date.now()
  reqs,         \* bag of the handlers suspended at an await
  last          \* the handler step taken last: request and response

vars == <<variant, users, papers, blobs, nextUserId, nextPaperId, nextFileId,
          now, reqs, last>>

\* ------------------------------------------------------------------ tokens
AdminClaims == [sub |-> AdminSubject, isAdmin |-> TRUE]

\* a moderator's claims carry no isAdmin: req.user.isAdmin is falsy
ModeratorClaims(id) == [sub |-> id, isAdmin |-> FALSE]

NoClaims == [sub |-> -1, isAdmin |-> FALSE]

\* Claims of the tokens jwt.sign can have issued so far. Tokens carry no expiry
\* and logging in changes no store, so every moderator registered so far
\* (deleted since or not) may hold one, and so may the admin.
IssuedClaims ==
  {AdminClaims} \cup {ModeratorClaims(id) : id \in 1..(nextUserId - 1)}

Token(kind, claims) == [kind |-> kind, claims |-> claims]

\* what a request can carry in its Authorization header
TokenInputs ==
  {Token("none", NoClaims), Token("garbage", NoClaims)}
    \cup {Token("valid", c) : c \in IssuedClaims}

\* authenticate: 401 without a token, 400 when jwt.verify throws, else next()
Authenticate(t) ==
  IF t.kind = "none" THEN "401"
  ELSE IF t.kind = "garbage" THEN "400 Invalid token" ELSE "next"

\* req.user = decoded
ReqUser(t) == t.claims

\* The inputs of a request that a handler can read: authenticate answers
\* before the route's other middleware and its handler run, so a request it
\* rejects is the same request whatever its parameters, body and files are.
Params(t, S) ==
  IF Authenticate(t) = "next" THEN S ELSE {CHOOSE x \in S : TRUE}

\* bcrypt.hash(password, salt) and bcrypt.compare(password, hash)
BcryptHash(pw, salt) == <<"bcrypt", salt, pw>>

BcryptCompare(pw, hash) == hash = BcryptHash(pw, hash[2])

\* ---------------------------------------------------------------- responses
\* op: the handler; admin: req.user.isAdmin; uploaded: req.files.length;
\* status: what res sends ("pending" while the handler is suspended, "none"
\* when it ends without a response)
Response(op, caller, uploaded, status) ==
  [op |-> op, admin |-> caller.isAdmin, uploaded |-> uploaded, status |-> status]

Respond(op, caller, status) == last' = Response(op, caller, 0, status)

RespondUpload(op, caller, batch, status) == last' = Response(op, caller, batch, status)

Without(f, k) == [x \in DOMAIN f \ {k} |-> f[x]]

With(f, k, v) == [x \in DOMAIN f \cup {k} |-> IF x = k THEN v ELSE f[x]]

\* req.files after multer's upload.array('files'): the number of files of the
\* request, in arrival order, within a budget of maxFiles ids
UploadBatches(maxFiles) == {n \in 0..maxFiles : nextFileId + n <= maxFiles + 1}

\* req.files.map(file => ({url/path, public_id, originalName})): the storage
\* engine names every stored file afresh; that name is the key of its blob and
\* here the id of the sub-document too, and arrival order is id order
MapFiles(batch) == [i \in 1..batch |-> nextFileId + i - 1]

FileIdsOf(files) == {files[i] : i \in 1..Len(files)}

\* ---------------------------------------------------------------- the state
Init ==
  /\ variant \in Variants
  /\ users = <<>>
  /\ papers = <<>>
  /\ blobs = {}
  /\ nextUserId = 1
  /\ nextPaperId = 1
  /\ nextFileId = 1
  /\ now = 0
  /\ reqs = EmptyBag
  /\ last = Response("init", NoClaims, 0, "none")

\* Date.now() advances between requests
Tick ==
  /\ now < MaxTime
  /\ now' = now + 1
  /\ Respond("tick", NoClaims, "none")
  /\ UNCHANGED <<variant, users, papers, blobs, nextUserId, nextPaperId,
                 nextFileId, reqs>>

\* ------------------------------------------------------------------- logins
\* POST /api/admin/login
AdminLogin(username, password) ==
  /\ IF username # "admin" \/ password # AdminPassword
       THEN Respond("adminLogin", NoClaims, "400 Invalid credentials")
       ELSE Respond("adminLogin", AdminClaims, "200")
  /\ UNCHANGED <<variant, users, papers, blobs, nextUserId, nextPaperId,
                 nextFileId, now, reqs>>

\* User.findOne({username}): the first stored document with that username, 0
\* when there is none
FindUserByName(username) ==
  LET ids == {id \in DOMAIN users : users[id].username = username}
  IN  IF ids = {} THEN 0 ELSE CHOOSE id \in ids : \A other \in ids : id <= other

\* POST /api/moderators/login
ModeratorLogin(username, password) ==
  /\ LET id == FindUserByName(username) IN
       IF id = 0 \/ ~BcryptCompare(password, users[id].password)
         THEN Respond("moderatorLogin", NoClaims, "400 Invalid credentials")
         ELSE Respond("moderatorLogin", ModeratorClaims(id), "200")
  /\ UNCHANGED <<variant, users, papers, blobs, nextUserId, nextPaperId,
                 nextFileId, now, reqs>>

\* ---------------------------------------------------------------- moderators
\* A handler suspended at an await: what it is, where it resumes, its locals.
Pending(op, pc, caller, username, password, id) ==
  [op |-> op, pc |-> pc, admin |-> caller.isAdmin, username |-> username,
   password |-> password, hashedPassword |-> <<>>, id |-> id]

PendingCaller(r) == [sub |-> AdminSubject, isAdmin |-> r.admin]

Suspend(r) == reqs' = reqs (+) SetToBag({r})

Resume(r, r2) == reqs' = (reqs (-) SetToBag({r})) (+) SetToBag({r2})

Finish(r) == reqs' = reqs (-) SetToBag({r})

RegistersInFlight ==
  LET regs == {r \in BagToSet(reqs) : r.op = "register"}
  IN  BagCardinality([r \in regs |-> reqs[r]])

\* the handler without its look-up of the username
AlreadyRegisteredUnchecked(username) == FALSE

\* let user = await User.findOne({username}); if (user) ...
AlreadyRegistered(username) == FindUserByName(username) # 0

\* POST /api/moderators, up to the await of User.findOne
RegisterLookup(t, username, password) ==
  /\ IF Authenticate(t) # "next"
       THEN /\ Respond("register", NoClaims, Authenticate(t))
            /\ UNCHANGED reqs
       ELSE IF ~ReqUser(t).isAdmin
       THEN /\ Respond("register", ReqUser(t), "403")
            /\ UNCHANGED reqs
       ELSE IF AlreadyRegistered(username)
       THEN /\ Respond("register", ReqUser(t), "400 Moderator already registered")
            /\ UNCHANGED reqs
       ELSE /\ BagCardinality(reqs) < MaxInFlight
            /\ nextUserId + RegistersInFlight <= MaxUsers
            /\ Suspend(Pending("register", "hash", ReqUser(t), username, password, 0))
            /\ Respond("register", ReqUser(t), "pending")
  /\ UNCHANGED <<variant, users, papers, blobs, nextUserId, nextPaperId,
                 nextFileId, now>>

\* POST /api/moderators: bcrypt.genSalt and bcrypt.hash
RegisterHash(r, salt) ==
  /\ r \in BagToSet(reqs) /\ r.op = "register" /\ r.pc = "hash"
  /\ Resume(r, [r EXCEPT !.pc = "save", !.hashedPassword = BcryptHash(r.password, salt)])
  /\ Respond("register", PendingCaller(r), "pending")
  /\ UNCHANGED <<variant, users, papers, blobs, nextUserId, nextPaperId,
                 nextFileId, now>>

\* a User collection without the unique index
UserSaveUnindexed(username) == FALSE

\* user.save() on the User model: username is declared unique, so the
\* collection's index rejects a second document with a stored username
UserSaveRejects(username) ==
  \E id \in DOMAIN users : users[id].username = username

\* POST /api/moderators: new User(...), user.save(), res.send
RegisterSave(r) ==
  /\ r \in BagToSet(reqs) /\ r.op = "register" /\ r.pc = "save"
  /\ Finish(r)
  /\ IF UserSaveRejects(r.username)
       THEN \* the rejection is not caught: no response is sent
            /\ Respond("register", PendingCaller(r), "none")
            /\ UNCHANGED <<users, nextUserId>>
       ELSE /\ users' = With(users, nextUserId,
                             [username |-> r.username, password |-> r.hashedPassword])
            /\ nextUserId' = nextUserId + 1
            /\ Respond("register", PendingCaller(r), "200")
  /\ UNCHANGED <<variant, papers, blobs, nextPaperId, nextFileId, now>>

\* GET /api/moderators
ListModerators(t) ==
  /\ IF Authenticate(t) # "next"
       THEN Respond("listModerators", NoClaims, Authenticate(t))
       ELSE IF ~ReqUser(t).isAdmin
       THEN Respond("listModerators", ReqUser(t), "403")
       ELSE Respond("listModerators", ReqUser(t), "200")
  /\ UNCHANGED <<variant, users, papers, blobs, nextUserId, nextPaperId,
                 nextFileId, now, reqs>>

\* DELETE /api/moderators/:id, up to the await of User.findByIdAndDelete
DeleteModeratorFind(t, id) ==
  /\ IF Authenticate(t) # "next"
       THEN /\ Respond("deleteModerator", NoClaims, Authenticate(t))
            /\ UNCHANGED <<users, reqs>>
       ELSE IF ~ReqUser(t).isAdmin
       THEN /\ Respond("deleteModerator", ReqUser(t), "403")
            /\ UNCHANGED <<users, reqs>>
       ELSE IF id \notin DOMAIN users
       THEN /\ Respond("deleteModerator", ReqUser(t), "404 moderator")
            /\ UNCHANGED <<users, reqs>>
       ELSE /\ BagCardinality(reqs) < MaxInFlight
            /\ users' = Without(users, id)
            /\ Suspend(Pending("deleteModerator", "deleteMany", ReqUser(t), Empty, Empty, id))
            /\ Respond("deleteModerator", ReqUser(t), "pending")
  /\ UNCHANGED <<variant, papers, blobs, nextUserId, nextPaperId, nextFileId, now>>

\* Paper.deleteMany({moderatorId})
DeleteManyByModerator(id) ==
  [p \in {q \in DOMAIN papers : papers[q].moderatorId # id} |-> papers[p]]

\* DELETE /api/moderators/:id: Paper.deleteMany, res.send
DeleteModeratorCascade(r) ==
  /\ r \in BagToSet(reqs) /\ r.op = "deleteModerator" /\ r.pc = "deleteMany"
  /\ Finish(r)
  /\ papers' = DeleteManyByModerator(r.id)
  /\ Respond("deleteModerator", PendingCaller(r), "200")
  /\ UNCHANGED <<variant, users, blobs, nextUserId, nextPaperId, nextFileId, now>>

\* -------------------------------------------------------------------- papers
\* paper.validate() on save: moderatorId, title and note are required and
\* moderatorId must cast to an ObjectId; the ref: 'User' is never looked up
PaperValid(moderatorId, title, note) ==
  /\ moderatorId \in UserIds
  /\ title # Empty
  /\ note # Empty

\* the blob store after multer has stored the request's files
Upload(batch) ==
  /\ blobs' = blobs \cup FileIdsOf(MapFiles(batch))
  /\ nextFileId' = nextFileId + batch

\* new Paper({moderatorId, title, note, files}) with the schema's defaults
NewPaper(moderatorId, title, note, files) ==
  [moderatorId |-> moderatorId, title |-> title, note |-> note,
   files |-> files, createdAt |-> now, updatedAt |-> now]

\* POST /api/papers
CreatePaper(t, moderatorId, title, note, batch) ==
  /\ IF Authenticate(t) # "next"
       THEN /\ Respond("createPaper", NoClaims, Authenticate(t))
            /\ UNCHANGED <<papers, nextPaperId, blobs, nextFileId>>
       ELSE /\ Upload(batch)
            /\ IF ~ReqUser(t).isAdmin
                 THEN /\ RespondUpload("createPaper", ReqUser(t), batch, "403")
                      /\ UNCHANGED <<papers, nextPaperId>>
                 ELSE IF ~PaperValid(moderatorId, title, note)
                 THEN \* paper.save() rejects and nothing catches it
                      /\ RespondUpload("createPaper", ReqUser(t), batch, "none")
                      /\ UNCHANGED <<papers, nextPaperId>>
                 ELSE /\ papers' = With(papers, nextPaperId,
                           NewPaper(moderatorId, title, note, MapFiles(batch)))
                      /\ nextPaperId' = nextPaperId + 1
                      /\ RespondUpload("createPaper", ReqUser(t), batch, "200")
  /\ UNCHANGED <<variant, users, nextUserId, now, reqs>>

\* paper.files.unshift(...newFiles) in place of push
PushFilesFront(files, newFiles) == newFiles \o files

\* paper.files.push(...newFiles)
PushFiles(files, newFiles) == files \o newFiles

\* if (req.body.note) paper.note = ...; if (req.files.length > 0) push;
\* paper.updatedAt = Date.now()
UpdatedPaper(paper, note, batch) ==
  [paper EXCEPT !.note = IF note # Empty THEN note ELSE @,
                !.files = IF batch > 0 THEN PushFiles(@, MapFiles(batch)) ELSE @,
                !.updatedAt = now]

\* PUT /api/papers/:id
UpdatePaper(t, id, note, batch) ==
  /\ IF Authenticate(t) # "next"
       THEN /\ Respond("updatePaper", NoClaims, Authenticate(t))
            /\ UNCHANGED <<papers, blobs, nextFileId>>
       ELSE /\ Upload(batch)
            /\ IF ~ReqUser(t).isAdmin
                 THEN /\ RespondUpload("updatePaper", ReqUser(t), batch, "403")
                      /\ UNCHANGED papers
                 ELSE IF id \notin DOMAIN papers
                 THEN /\ RespondUpload("updatePaper", ReqUser(t), batch, "404 paper")
                      /\ UNCHANGED papers
                 ELSE /\ papers' = [papers EXCEPT ![id] = UpdatedPaper(@, note, batch)]
                      /\ RespondUpload("updatePaper", ReqUser(t), batch, "200")
  /\ UNCHANGED <<variant, users, nextUserId, nextPaperId, now, reqs>>

\* findIndex's -1 handed to splice unchecked: splice(-1, 1) takes the last file
FileIndexOrLast(files, fileId) ==
  IF \E i \in 1..Len(files) : files[i] = fileId
    THEN CHOOSE i \in 1..Len(files) : files[i] = fileId
    ELSE Len(files)

\* paper.files.id(fileId) / paper.files.findIndex(f => f._id.toString() === fileId):
\* the position of the sub-document, 0 when there is none
FileIndex(files, fileId) ==
  IF \E i \in 1..Len(files) : files[i] = fileId
    THEN CHOOSE i \in 1..Len(files) : files[i] = fileId
    ELSE 0

\* file.remove() / paper.files.splice(fileIndex, 1)
RemoveAt(files, k) ==
  [i \in 1..(Len(files) - 1) |-> IF i < k THEN files[i] ELSE files[i + 1]]

\* The guard of the delete-file handler: the local-disk server answers 403 to
\* a caller that is not the admin; the remote-blob server has no such line
DeleteFileForbidden(caller) == variant = "local" /\ ~caller.isAdmin

\* DELETE /api/papers/:paperId/files/:fileId; destroyOk: whether
\* cloudinary.uploader.destroy resolves (it throws otherwise)
DeleteFile(t, paperId, fileId, destroyOk) ==
  /\ IF Authenticate(t) # "next"
       THEN /\ Respond("deleteFile", NoClaims, Authenticate(t))
            /\ UNCHANGED <<papers, blobs>>
       ELSE IF DeleteFileForbidden(ReqUser(t))
       THEN /\ Respond("deleteFile", ReqUser(t), "403")
            /\ UNCHANGED <<papers, blobs>>
       ELSE IF paperId \notin DOMAIN papers
       THEN /\ Respond("deleteFile", ReqUser(t), "404 paper")
            /\ UNCHANGED <<papers, blobs>>
       ELSE IF FileIndex(papers[paperId].files, fileId) = 0
       THEN /\ Respond("deleteFile", ReqUser(t), "404 file")
            /\ UNCHANGED <<papers, blobs>>
       ELSE IF variant = "remote" /\ ~destroyOk
       THEN \* catch (error): 500, before file.remove() and paper.save()
            /\ Respond("deleteFile", ReqUser(t), "500")
            /\ UNCHANGED <<papers, blobs>>
       ELSE /\ blobs' = IF variant = "remote" THEN blobs \ {fileId} ELSE blobs
            /\ papers' = [papers EXCEPT ![paperId].files =
                            RemoveAt(@, FileIndex(@, fileId))]
            /\ Respond("deleteFile", ReqUser(t), "200")
  /\ UNCHANGED <<variant, users, nextUserId, nextPaperId, nextFileId, now, reqs>>

\* Paper.find({moderatorId})
FindByModerator(moderatorId) ==
  {p \in DOMAIN papers : papers[p].moderatorId = moderatorId}

\* the guard with its admin test alone
ListPapersForbiddenToNone(caller, moderatorId) == FALSE

\* if (!req.user.isAdmin && req.user._id !== req.params.moderatorId)
ListPapersForbidden(caller, moderatorId) ==
  ~caller.isAdmin /\ caller.sub # moderatorId

\* GET /api/papers/moderator/:moderatorId for an authenticated caller: the
\* status and the papers sent
ListPapersResult(caller, moderatorId) ==
  IF ListPapersForbidden(caller, moderatorId)
    THEN [status |-> "403", body |-> {}]
  ELSE IF moderatorId \notin UserIds
    THEN \* the query's cast to ObjectId throws and nothing catches it
         [status |-> "none", body |-> {}]
  ELSE [status |-> "200", body |-> FindByModerator(moderatorId)]

\* GET /api/papers/moderator/:moderatorId
ListPapers(t, moderatorId) ==
  /\ IF Authenticate(t) # "next"
       THEN Respond("listPapers", NoClaims, Authenticate(t))
       ELSE Respond("listPapers", ReqUser(t), ListPapersResult(ReqUser(t), moderatorId).status)
  /\ UNCHANGED <<variant, users, papers, blobs, nextUserId, nextPaperId,
                 nextFileId, now, reqs>>

\* for (const file of paper.files) await cloudinary.uploader.destroy(file.public_id)
\* with the failAt-th call throwing (0: none throws): the blobs destroyed. The
\* local-disk server destroys none (its fs.unlinkSync is commented out).
Destroyed(files, failAt) ==
  IF variant = "local" THEN {}
  ELSE IF failAt \in 1..Len(files) THEN {files[i] : i \in 1..(failAt - 1)}
  ELSE FileIdsOf(files)

DestroyThrows(files, failAt) == variant = "remote" /\ failAt \in 1..Len(files)

\* DELETE /api/papers/:id
DeletePaper(t, id, failAt) ==
  /\ IF Authenticate(t) # "next"
       THEN /\ Respond("deletePaper", NoClaims, Authenticate(t))
            /\ UNCHANGED <<papers, blobs>>
       ELSE IF ~ReqUser(t).isAdmin
       THEN /\ Respond("deletePaper", ReqUser(t), "403")
            /\ UNCHANGED <<papers, blobs>>
       ELSE IF id \notin DOMAIN papers
       THEN /\ Respond("deletePaper", ReqUser(t), "404 paper")
            /\ UNCHANGED <<papers, blobs>>
       ELSE /\ papers' = Without(papers, id)
            /\ blobs' = blobs \ Destroyed(papers[id].files, failAt)
            /\ IF DestroyThrows(papers[id].files, failAt)
                 THEN \* the rejection is not caught: res.send is not reached
                      Respond("deletePaper", ReqUser(t), "none")
                 ELSE Respond("deletePaper", ReqUser(t), "200")
  /\ UNCHANGED <<variant, users, nextUserId, nextPaperId, nextFileId, now, reqs>>

\* ------------------------------------------------------------ specifications
\* req.body of POST /api/papers: every body that validates, and one body for
\* each way of not validating
PaperBodies(owners, notes) ==
  [moderatorId : owners, title : Titles, note : notes]
    \cup {[moderatorId |-> AdminSubject, title |-> "T", note |-> "N1"],
          [moderatorId |-> 1, title |-> Empty, note |-> "N1"],
          [moderatorId |-> 1, title |-> "T", note |-> Empty]}

NextLogin ==
  \/ \E u \in {"admin", "alice"}, p \in {AdminPassword, "pw1"} : AdminLogin(u, p)
  \/ \E u \in Usernames, p \in Passwords : ModeratorLogin(u, p)

NextRegister ==
  \/ \E t \in TokenInputs :
       \E u \in Params(t, Usernames), p \in Params(t, Passwords) :
         RegisterLookup(t, u, p)
  \/ \E r \in BagToSet(reqs), salt \in Salts : RegisterHash(r, salt)
  \/ \E r \in BagToSet(reqs) : RegisterSave(r)
  \/ \E t \in TokenInputs : ListModerators(t)

NextDeleteModerator ==
  \/ \E t \in TokenInputs : \E id \in Params(t, UserIds) : DeleteModeratorFind(t, id)
  \/ \E r \in BagToSet(reqs) : DeleteModeratorCascade(r)

\* the requests on Paper records, with at most maxPapers papers created and
\* maxFiles files uploaded, and the papers' owners and notes drawn from owners
\* and notes
NextPapers(maxPapers, maxFiles, owners, notes) ==
  \/ \E t \in TokenInputs :
       \E body \in Params(t, PaperBodies(owners, notes)),
          batch \in Params(t, UploadBatches(maxFiles)) :
         /\ nextPaperId <= maxPapers
         /\ CreatePaper(t, body.moderatorId, body.title, body.note, batch)
  \/ \E t \in TokenInputs :
       \E id \in Params(t, 1..maxPapers), note \in Params(t, notes \cup {Empty}),
          batch \in Params(t, UploadBatches(maxFiles)) :
         UpdatePaper(t, id, note, batch)
  \/ \E t \in TokenInputs :
       \E m \in Params(t, UserIds \cup {AdminSubject}) : ListPapers(t, m)
  \/ \E t \in TokenInputs :
       \E id \in Params(t, 1..maxPapers), failAt \in Params(t, 0..maxFiles) :
         DeletePaper(t, id, failAt)

\* the requests on the attachments of the papers
NextFiles(maxPapers, maxFiles) ==
  \E t \in TokenInputs :
    \E id \in Params(t, 1..maxPapers), f \in Params(t, 1..maxFiles),
       ok \in Params(t, BOOLEAN) :
      DeleteFile(t, id, f, ok)

Next ==
  \/ Tick
  \/ NextLogin
  \/ NextRegister
  \/ NextDeleteModerator
  \/ NextPapers(MaxPapers, MaxFiles, UserIds, Notes)
  \/ NextFiles(MaxPapers, MaxFiles)

\* the whole service
Spec == Init /\ [][Next]_vars

\* The Identity store on its own: logins, registrations and moderator
\* deletions in every interleaving. No paper handler writes users or reqs.
SpecIdentity == Init /\ [][NextLogin \/ NextRegister \/ NextDeleteModerator]_vars

\* The state after the admin has registered alice and bob, one after the other
\* (SpecIdentity reaches it).
InitModerators ==
  /\ variant \in Variants
  /\ users = <<[username |-> "alice", password |-> BcryptHash("pw1", "salt")],
               [username |-> "bob", password |-> BcryptHash("pw2", "salt")]>>
  /\ papers = <<>>
  /\ blobs = {}
  /\ nextUserId = 3
  /\ nextPaperId = 1
  /\ nextFileId = 1
  /\ now = 0
  /\ reqs = EmptyBag
  /\ last = Response("register", AdminClaims, 0, "200")

\* The service once alice and bob are registered: every handler but the
\* logins and the registration, under the admin and the two moderators.
SpecService ==
  InitModerators
    /\ [][\/ Tick
          \/ NextDeleteModerator
          \/ NextPapers(MaxPapers, MaxFiles, UserIds, Notes)
          \/ NextFiles(MaxPapers, MaxFiles)]_vars

\* Who owns and who may list which Paper: Paper records without attachments
\* under the admin and the two moderators, with moderator deletion.
SpecAccess ==
  InitModerators /\ [][NextDeleteModerator \/ NextPapers(MaxOwned, 0, UserIds, Notes)]_vars

\* The attachment lifecycle under the admin, before any moderator is
\* registered: the paper handlers read neither users nor reqs.
SpecFiles ==
  Init /\ [][NextPapers(MaxPapers, MaxFiles, UserIds, Notes) \/ NextFiles(MaxPapers, MaxFiles)]_vars

\* The attachments of the papers of one moderator, under the admin and the
\* two moderators: uploads, appends and removals, with one note text.
SpecAttachments ==
  InitModerators /\ [][NextPapers(MaxPapers, MaxFiles, {1}, {"N1"})
                          \/ NextFiles(MaxPapers, MaxFiles)]_vars

\* ------------------------------------------------------------------- claims
Authenticated == last'.status \notin {"401", "400 Invalid token"}

MutatingOps ==
  {"register", "deleteModerator", "createPaper", "updatePaper", "deletePaper",
   "deleteFile"}

\* C1: a request of a caller whose claims lack isAdmin = true never changes the
\* Identity store or a Paper (attachments included): whichever of the six
\* mutating handlers it reaches leaves users and papers as they were.
C1_NonAdminChangesNothing ==
  [][(last'.op \in MutatingOps /\ Authenticated /\ ~last'.admin)
       => UNCHANGED <<users, papers>>]_vars

DeleteManyPending(id) ==
  \E r \in BagToSet(reqs) : r.op = "deleteModerator" /\ r.id = id

\* C2: once the deletion of moderator M has completed, list-papers-by-owner
\* for M returns no paper.
C2_DeletedModeratorOwnsNothing ==
  \A M \in 1..(nextUserId - 1) :
    (M \notin DOMAIN users /\ ~DeleteManyPending(M))
      => ListPapersResult(AdminClaims, M).body = {}

\* C3: list-papers-by-owner for O succeeds only for the admin or for O itself,
\* answers 403 with no paper to every other authenticated caller, and on
\* success sends exactly the papers whose moderatorId is O.
C3_ListPapersAccess ==
  \A c \in IssuedClaims, O \in UserIds \cup {AdminSubject} :
    LET r == ListPapersResult(c, O) IN
      /\ r.status = "200" => (c.isAdmin \/ c.sub = O)
      /\ ~(c.isAdmin \/ c.sub = O) => (r.status = "403" /\ r.body = {})
      /\ r.status = "200" => r.body = {p \in DOMAIN papers : papers[p].moderatorId = O}

\* C3's case: a moderator has just been refused somebody else's papers, of
\* which there are some.
C3_Witness ==
  /\ last.op = "listPapers" /\ last.status = "403" /\ ~last.admin
  /\ \E p \in DOMAIN papers, c \in IssuedClaims :
       ~c.isAdmin /\ c.sub # papers[p].moderatorId

\* C4: a Paper is only ever created with a moderatorId that is the id of an
\* Identity in the store at that moment.
C4_OwnerExistsAtCreation ==
  [][\A p \in DOMAIN papers' \ DOMAIN papers :
       papers'[p].moderatorId \in DOMAIN users]_vars

\* C5: after a successful update paper and after a successful attachment
\* deletion the Paper's updatedAt is the time of that mutation (and so not
\* less than before).
C5_UpdatedAtRefreshed ==
  [][(last'.op \in {"updatePaper", "deleteFile"} /\ last'.status = "200") =>
     \A t \in TokenInputs, id \in DOMAIN papers :
       /\ \A note \in Notes \cup {Empty}, batch \in 0..MaxFiles :
            (UpdatePaper(t, id, note, batch) /\ last'.status = "200")
              => (papers'[id].updatedAt = now /\ papers'[id].updatedAt >= papers[id].updatedAt)
       /\ \A f \in 1..MaxFiles, ok \in BOOLEAN :
            (DeleteFile(t, id, f, ok) /\ last'.status = "200")
              => (papers'[id].updatedAt = now /\ papers'[id].updatedAt >= papers[id].updatedAt)]_vars

UsernameStored(u) == \E id \in DOMAIN users : users[id].username = u

\* C6: register moderator with a username that is in the Identity store ends
\* at once with 400 "already registered" (for the admin; with 401/400/403 at
\* the guards otherwise), with the store as it was and nothing left to run.
C6_RegisterExisting ==
  [][last'.op = "register" =>
     \A t \in TokenInputs, u \in Usernames, p \in Passwords :
       (RegisterLookup(t, u, p) /\ UsernameStored(u))
         => /\ users' = users
            /\ reqs' = reqs
            /\ last'.status \in {"401", "400 Invalid token", "403",
                                 "400 Moderator already registered"}
            /\ (t.kind = "valid" /\ t.claims.isAdmin)
                 => last'.status = "400 Moderator already registered"]_vars

\* C6's case: the admin has just been answered 400 "already registered", with
\* the username in the store.
C6_Witness ==
  /\ last.op = "register" /\ last.admin
  /\ last.status = "400 Moderator already registered"
  /\ users # <<>>

\* C7: a successful update paper leaves the Paper's attachments as the
\* previous sequence followed by the uploaded files in arrival order, and the
\* other Papers as they were.
C7_AppendKeepsOrder ==
  [][(last'.op = "updatePaper" /\ last'.status = "200") =>
     \A t \in TokenInputs, id \in DOMAIN papers, note \in Notes \cup {Empty},
        batch \in {last'.uploaded} :
       UpdatePaper(t, id, note, batch)
         => /\ papers'[id].files =
                 papers[id].files \o [i \in 1..batch |-> nextFileId + i - 1]
            /\ \A q \in DOMAIN papers \ {id} : papers'[q] = papers[q]]_vars

\* C7's case: one file has just been appended to a Paper that held two; it
\* now holds the three in upload order.
C7_Witness ==
  /\ last.op = "updatePaper" /\ last.status = "200" /\ last.uploaded = 1
  /\ \E p \in DOMAIN papers : papers[p].files = <<1, 2, 3>>

\* C8: a remove-attachment request that fails leaves every Paper's attachments
\* as they were: it fails with 404 when the Paper has no attachment of that
\* id, and with 500, before anything is saved, when the blob store throws.
C8_FailedRemoveKeepsFiles ==
  [][last'.op = "deleteFile" =>
     /\ last'.status # "200" => papers' = papers
     /\ last'.admin =>
          \A id \in DOMAIN papers, f \in 1..MaxFiles, ok \in BOOLEAN :
            DeleteFile(Token("valid", AdminClaims), id, f, ok)
              => /\ f \notin FileIdsOf(papers[id].files)
                      => (last'.status = "404 file" /\ papers' = papers)
                 /\ (f \in FileIdsOf(papers[id].files) /\ variant = "remote" /\ ~ok)
                      => (last'.status = "500" /\ papers' = papers)]_vars

\* C8's case: the blob store has just thrown on the deletion of an attachment,
\* which the Paper still holds.
C8_Witness ==
  /\ last.op = "deleteFile" /\ last.status = "500"
  /\ \E p \in DOMAIN papers : papers[p].files # <<>>

\* C9: delete paper by the admin on an existing Paper removes the Paper and
\* answers 200 whether or not a blob deletion fails, and leaves in the blob
\* store no blob of the Paper's attachments but the one whose deletion failed.
C9_DeletePaperBestEffort ==
  [][last'.op = "deletePaper" =>
     \A id \in DOMAIN papers, failAt \in 0..MaxFiles :
       DeletePaper(Token("valid", AdminClaims), id, failAt)
         => /\ id \notin DOMAIN papers'
            /\ last'.status = "200"
            /\ (blobs' \cap FileIdsOf(papers[id].files))
                 \subseteq (IF DestroyThrows(papers[id].files, failAt)
                              THEN {papers[id].files[failAt]} ELSE {})]_vars

\* C10: no two Identities in the store share a username, whatever the
\* interleaving of the register-moderator handlers.
C10_UsernamesUnique ==
  \A a \in DOMAIN users, b \in DOMAIN users :
    users[a].username = users[b].username => a = b

\* C10's case: of two registrations of one username that both passed the
\* look-up, the second to save has just been rejected.
C10_Witness ==
  /\ last.op = "register" /\ last.status = "none"
  /\ \E id \in DOMAIN users : TRUE
====
